---- MODULE Spec2Model ----
(***************************************************************************)
(* Arithmetic over the prime field p = 2^64 - 2^32 + 1 of src/src/lib.rs.  *)
(*                                                                         *)
(* A u64 is a sequence of 8 bytes and a u128 a sequence of 16 bytes, least *)
(* significant byte first, so that every operation keeps the width it has  *)
(* in the source: TLC's own integers are 32 bits wide and cannot hold the  *)
(* operands.  Each public function of the library is one action: a call    *)
(* records the function's locals and its result, and Return goes back to   *)
(* the idle state.                                                         *)
(***************************************************************************)
EXTENDS Integers, Sequences, FiniteSets

VARIABLES op, x, y, out, loc, panic

vars == <<op, x, y, out, loc, panic>>

-----------------------------------------------------------------------------
(* Fixed-width unsigned integers.                                          *)

\* One byte holds the values 0 .. Base - 1.
Base == 2^8

\* Bytes in a u32, a u64 and a u128.
U32Bytes == 32 \div 8
U64Bytes == 64 \div 8
U128Bytes == 128 \div 8

\* The value 0 in n bytes.
Zero(n) == [i \in 1..n |-> 0]

\* The all-ones value in n bytes (u64::MAX for n = 8).
Ones(n) == [i \in 1..n |-> Base - 1]

\* A small natural number v < Base as an n-byte integer.
Small(v, n) == [i \in 1..n |-> IF i = 1 THEN v ELSE 0]

\* `a as u128` for a narrower a, `a as u64` for a u32: zero extension.
Widen(a, n) == [i \in 1..n |-> IF i <= Len(a) THEN a[i] ELSE 0]

\* `a as u64` for a u128, `a as u32` for a u64: the low n bytes.
Truncate(a, n) == SubSeq(a, 1, n)

\* The bytes of a + b + c from position i on, followed by the carry out.
RECURSIVE AddBytes(_, _, _, _)
AddBytes(a, b, i, c) ==
    IF i > Len(a) THEN <<c>>
    ELSE LET s == a[i] + b[i] + c
         IN  <<s % Base>> \o AddBytes(a, b, i + 1, s \div Base)

\* The bytes of a - b - c from position i on, followed by the borrow out.
RECURSIVE SubBytes(_, _, _, _)
SubBytes(a, b, i, c) ==
    IF i > Len(a) THEN <<c>>
    ELSE LET d == a[i] - b[i] - c
         IN  IF d < 0 THEN <<d + Base>> \o SubBytes(a, b, i + 1, 1)
                      ELSE <<d>> \o SubBytes(a, b, i + 1, 0)

\* a.overflowing_add(b): the wrapped sum and whether it overflowed.
overflowing_add(a, b) ==
    LET r == AddBytes(a, b, 1, 0)
    IN  [val |-> SubSeq(r, 1, Len(a)), flag |-> r[Len(a) + 1] = 1]

\* a.overflowing_sub(b): the wrapped difference and whether it borrowed.
overflowing_sub(a, b) ==
    LET r == SubBytes(a, b, 1, 0)
    IN  [val |-> SubSeq(r, 1, Len(a)), flag |-> r[Len(a) + 1] = 1]

wrapping_add(a, b) == overflowing_add(a, b).val

wrapping_sub(a, b) == overflowing_sub(a, b).val

\* a < b, compared from the most significant byte down.
RECURSIVE LessFrom(_, _, _)
LessFrom(a, b, i) ==
    IF i = 0 THEN FALSE
    ELSE IF a[i] # b[i] THEN a[i] < b[i]
    ELSE LessFrom(a, b, i - 1)

Less(a, b) == LessFrom(a, b, Len(a))

\* The sum of a[i] * b[k + 1 - i] over the positions i..hi: column k of the
\* schoolbook product.
RECURSIVE Column(_, _, _, _, _)
Column(a, b, k, i, hi) ==
    IF i > hi THEN 0
    ELSE a[i] * b[k + 1 - i] + Column(a, b, k, i + 1, hi)

\* The bytes of the product a * b from column k on; c is the carry in.
RECURSIVE MulBytes(_, _, _, _)
MulBytes(a, b, k, c) ==
    IF k > 2 * Len(a) THEN <<>>
    ELSE LET lo == IF k > Len(a) THEN k + 1 - Len(a) ELSE 1
             hi == IF k > Len(a) THEN Len(a) ELSE k
             s  == Column(a, b, k, lo, hi) + c
         IN  <<s % Base>> \o MulBytes(a, b, k + 1, s \div Base)

\* The exact product of two n-byte integers, in 2n bytes.
WideMul(a, b) == MulBytes(a, b, 1, 0)

\* a * b in the width of a: the wrapped product and whether it overflowed.
overflowing_mul(a, b) ==
    LET w == WideMul(a, b)
    IN  [val  |-> SubSeq(w, 1, Len(a)),
         flag |-> SubSeq(w, Len(a) + 1, 2 * Len(a)) # Zero(Len(a))]

\* Bit i (0 = least significant) of a.
Bit(a, i) == (a[(i \div 8) + 1] \div 2^(i % 8)) % 2

\* One step of binary long division by m: the remainder r < m of the bits
\* read so far, shifted left by one with bit b shifted in, reduced below m.
RemStep(r, b, m) ==
    LET d == AddBytes(r, r, 1, b)
        v == SubSeq(d, 1, Len(r))
    IN  IF d[Len(r) + 1] = 1 \/ ~Less(v, m) THEN wrapping_sub(v, m) ELSE v

\* The remainder modulo m after reading bits hi down to lo of n, starting
\* from the remainder r of the bits above hi.  The upper half of the bits is
\* read first, and its remainder is computed (its length is looked at)
\* before the lower half starts, so that the evaluation stays shallow.
RECURSIVE RemBits(_, _, _, _, _)
RemBits(n, m, hi, lo, r) ==
    IF hi = lo THEN RemStep(r, Bit(n, hi), m)
    ELSE LET mid  == (hi + lo + 1) \div 2
             high == RemBits(n, m, hi, mid, r)
         IN  IF Len(high) = Len(r) THEN RemBits(n, m, mid - 1, lo, high)
                                   ELSE <<>>

\* n % m for integers of the same width.
Rem(n, m) == RemBits(n, m, 8 * Len(n) - 1, 0, Zero(Len(n)))

\* The n-byte integer whose bit i is b[i], for i in 0 .. 8n - 1.
FromBits(b, n) ==
    [j \in 1..n |-> b[8 * j - 8] + 2 * b[8 * j - 7] + 4 * b[8 * j - 6]
                    + 8 * b[8 * j - 5] + 16 * b[8 * j - 4] + 32 * b[8 * j - 3]
                    + 64 * b[8 * j - 2] + 128 * b[8 * j - 1]]

\* a << k: the bits shifted out at the top are dropped.
Shl(a, k) ==
    FromBits([i \in 0..(8 * Len(a) - 1) |-> IF i >= k THEN Bit(a, i - k) ELSE 0],
             Len(a))

\* Whether a << k drops a set bit.
ShlLosesBits(a, k) == \E i \in (8 * Len(a) - k)..(8 * Len(a) - 1) : Bit(a, i) = 1

\* a >> k for an unsigned a.
Shr(a, k) ==
    FromBits([i \in 0..(8 * Len(a) - 1) |->
                 IF i + k < 8 * Len(a) THEN Bit(a, i + k) ELSE 0], Len(a))

\* a >> k for a signed a (i64): the sign bit is shifted in.
Sar(a, k) ==
    FromBits([i \in 0..(8 * Len(a) - 1) |->
                 IF i + k < 8 * Len(a) THEN Bit(a, i + k)
                                       ELSE Bit(a, 8 * Len(a) - 1)], Len(a))

\* a ^ b
BitXor(a, b) ==
    FromBits([i \in 0..(8 * Len(a) - 1) |-> (Bit(a, i) + Bit(b, i)) % 2], Len(a))

\* a | b
BitOr(a, b) ==
    FromBits([i \in 0..(8 * Len(a) - 1) |->
                 IF Bit(a, i) + Bit(b, i) > 0 THEN 1 ELSE 0], Len(a))

\* !a
BitNot(a) == FromBits([i \in 0..(8 * Len(a) - 1) |-> 1 - Bit(a, i)], Len(a))

\* a.wrapping_neg()
wrapping_neg(a) == wrapping_sub(Zero(Len(a)), a)

\* `flag as u64`, `flag as u32`: 1 for true and 0 for false, in n bytes.
BoolAs(flag, n) == Small(IF flag THEN 1 ELSE 0, n)

-----------------------------------------------------------------------------
(* The library, src/src/lib.rs.  Every function is an operator that gives   *)
(* a record of its locals: ret is the value returned (by a build that wraps *)
(* on overflow) and overflow says whether an arithmetic operator that is    *)
(* neither wrapping_* nor overflowing_* left its width, where a build with  *)
(* overflow checks panics.                                                  *)

\* 0xffff_ffff_0000_0001 = 2^64 - 2^32 + 1
P64 == <<1, 0, 0, 0, 255, 255, 255, 255>>

P128 == <<1, 0, 0, 0, 255, 255, 255, 255, 0, 0, 0, 0, 0, 0, 0, 0>>

\* 0xffff_ffff
LOWER_MASK == <<255, 255, 255, 255, 0, 0, 0, 0>>

add(a, b) ==
    LET sum == overflowing_add(Widen(a, U128Bytes), Widen(b, U128Bytes))
    IN  [ret      |-> Truncate(Rem(sum.val, P128), U64Bytes),
         overflow |-> sum.flag]

\* add_fast with the comparison turned round: sum < P128.
add_fast_reversed(a, b) ==
    LET sum  == overflowing_add(Widen(a, U128Bytes), Widen(b, U128Bytes))
        over == Less(sum.val, P128)
        red  == overflowing_sub(sum.val, P128)
    IN  [ret      |-> Truncate(IF over THEN red.val ELSE sum.val, U64Bytes),
         reduced  |-> over,
         overflow |-> sum.flag \/ (over /\ red.flag)]

add_fast(a, b) ==
    LET sum  == overflowing_add(Widen(a, U128Bytes), Widen(b, U128Bytes))
        over == Less(P128, sum.val)
        red  == overflowing_sub(sum.val, P128)
    IN  [ret      |-> Truncate(IF over THEN red.val ELSE sum.val, U64Bytes),
         reduced  |-> over,
         overflow |-> sum.flag \/ (over /\ red.flag)]

\* add_winterfell with the mask taken in 64 bits: 0u64.wrapping_sub(c1 as u64).
add_winterfell_wide_mask(a, b) ==
    LET neg  == overflowing_sub(P64, b)
        diff == overflowing_sub(a, neg.val)
        x1   == diff.val
        c1   == diff.flag
        adj  == wrapping_sub(Zero(U64Bytes), BoolAs(c1, U64Bytes))
        last == overflowing_sub(x1, adj)
    IN  [ret      |-> last.val,
         x1       |-> x1,
         c1       |-> c1,
         adj      |-> Truncate(adj, U32Bytes),
         wrapped  |-> last.flag,
         overflow |-> neg.flag]

\* add_winterfell with the mask taken from the negated flag: !c1 as u32.
add_winterfell_negated_flag(a, b) ==
    LET neg  == overflowing_sub(P64, b)
        diff == overflowing_sub(a, neg.val)
        x1   == diff.val
        c1   == diff.flag
        adj  == wrapping_sub(Zero(U32Bytes), BoolAs(~c1, U32Bytes))
        last == overflowing_sub(x1, Widen(adj, U64Bytes))
    IN  [ret      |-> last.val,
         x1       |-> x1,
         c1       |-> c1,
         adj      |-> adj,
         wrapped  |-> last.flag,
         overflow |-> neg.flag]

add_winterfell(a, b) ==
    LET neg  == overflowing_sub(P64, b)
        diff == overflowing_sub(a, neg.val)
        x1   == diff.val
        c1   == diff.flag
        adj  == wrapping_sub(Zero(U32Bytes), BoolAs(c1, U32Bytes))
        last == overflowing_sub(x1, Widen(adj, U64Bytes))
    IN  [ret      |-> last.val,
         x1       |-> x1,
         c1       |-> c1,
         adj      |-> adj,
         wrapped  |-> last.flag,
         overflow |-> neg.flag]

mul(a, b) ==
    LET product == overflowing_mul(Widen(a, U128Bytes), Widen(b, U128Bytes))
    IN  [ret      |-> Truncate(Rem(product.val, P128), U64Bytes),
         overflow |-> product.flag]

\* reduce159 without the correction after an overflow of tmp1 + tmp2.
reduce159_no_overflow_fix(v) ==
    LET ab    == Truncate(v, U64Bytes)
        cd    == Truncate(Shr(v, 64), U64Bytes)
        c     == Widen(Truncate(cd, U32Bytes), U64Bytes)
        d     == Shr(cd, 32)
        sub0  == overflowing_sub(ab, d)
        tmp0  == sub0.val
        is_under == sub0.flag
        mask1 == overflowing_mul(LOWER_MASK, BoolAs(is_under, U64Bytes))
        sub1  == overflowing_sub(tmp0, mask1.val)
        tmp1  == sub1.val
        sub2  == overflowing_sub(Shl(c, 32), c)
        tmp2  == sub2.val
        sum   == overflowing_add(tmp1, tmp2)
    IN  [ret         |-> sum.val,
         is_under    |-> is_under,
         is_over     |-> sum.flag,
         shift_lost  |-> ShlLosesBits(c, 32),
         sub_wrapped |-> sub1.flag,
         add_wrapped |-> FALSE,
         overflow    |-> mask1.flag \/ sub2.flag]

reduce159(v) ==
    LET ab    == Truncate(v, U64Bytes)
        cd    == Truncate(Shr(v, 64), U64Bytes)
        c     == Widen(Truncate(cd, U32Bytes), U64Bytes)
        d     == Shr(cd, 32)
        sub0  == overflowing_sub(ab, d)
        tmp0  == sub0.val
        is_under == sub0.flag
        mask1 == overflowing_mul(LOWER_MASK, BoolAs(is_under, U64Bytes))
        sub1  == overflowing_sub(tmp0, mask1.val)
        tmp1  == sub1.val
        sub2  == overflowing_sub(Shl(c, 32), c)
        tmp2  == sub2.val
        sum   == overflowing_add(tmp1, tmp2)
        result  == sum.val
        is_over == sum.flag
        mask2 == overflowing_mul(LOWER_MASK, BoolAs(is_over, U64Bytes))
        last  == overflowing_add(result, mask2.val)
    IN  [ret         |-> last.val,
         is_under    |-> is_under,
         is_over     |-> is_over,
         shift_lost  |-> ShlLosesBits(c, 32),
         sub_wrapped |-> sub1.flag,
         add_wrapped |-> last.flag,
         overflow    |-> mask1.flag \/ sub2.flag \/ mask2.flag]

mul_reduce159(a, b) ==
    LET product == overflowing_mul(Widen(a, U128Bytes), Widen(b, U128Bytes))
        red     == reduce159(product.val)
    IN  [red EXCEPT !.overflow = product.flag \/ red.overflow]

\* reduce_montgomery without the carry e of xl + (xl << 32).
reduce_montgomery_no_carry(v) ==
    LET xl   == Truncate(v, U64Bytes)
        xh   == Truncate(Shr(v, 64), U64Bytes)
        sum  == overflowing_add(xl, Shl(xl, 32))
        a    == sum.val
        e    == sum.flag
        b    == wrapping_sub(a, Shr(a, 32))
        diff == overflowing_sub(xh, b)
        r    == diff.val
        c    == diff.flag
        mask == wrapping_sub(Zero(U32Bytes), BoolAs(c, U32Bytes))
        last == overflowing_sub(r, Widen(mask, U64Bytes))
    IN  [ret      |-> last.val,
         e        |-> e,
         c        |-> c,
         wrapped  |-> last.flag,
         overflow |-> FALSE]

\* reduce_montgomery without the mask subtracted after a borrow of xh - b.
reduce_montgomery_no_mask(v) ==
    LET xl   == Truncate(v, U64Bytes)
        xh   == Truncate(Shr(v, 64), U64Bytes)
        sum  == overflowing_add(xl, Shl(xl, 32))
        a    == sum.val
        e    == sum.flag
        b    == wrapping_sub(wrapping_sub(a, Shr(a, 32)), BoolAs(e, U64Bytes))
        diff == overflowing_sub(xh, b)
    IN  [ret      |-> diff.val,
         e        |-> e,
         c        |-> diff.flag,
         wrapped  |-> FALSE,
         overflow |-> FALSE]

reduce_montgomery(v) ==
    LET xl   == Truncate(v, U64Bytes)
        xh   == Truncate(Shr(v, 64), U64Bytes)
        sum  == overflowing_add(xl, Shl(xl, 32))
        a    == sum.val
        e    == sum.flag
        b    == wrapping_sub(wrapping_sub(a, Shr(a, 32)), BoolAs(e, U64Bytes))
        diff == overflowing_sub(xh, b)
        r    == diff.val
        c    == diff.flag
        mask == wrapping_sub(Zero(U32Bytes), BoolAs(c, U32Bytes))
        last == overflowing_sub(r, Widen(mask, U64Bytes))
    IN  [ret      |-> last.val,
         e        |-> e,
         c        |-> c,
         wrapped  |-> last.flag,
         overflow |-> FALSE]

mul_reduce_montgomery(a, b) ==
    LET product == overflowing_mul(Widen(a, U128Bytes), Widen(b, U128Bytes))
        red     == reduce_montgomery(product.val)
    IN  [red EXCEPT !.overflow = product.flag]

\* montgomery_equals without t.wrapping_neg(): only the top bit of t is seen.
montgomery_equals_no_neg(lhs, rhs) ==
    LET t == BitXor(lhs, rhs)
    IN  Ones(U64Bytes) = BitNot(Sar(t, 63))

montgomery_equals(lhs, rhs) ==
    LET t == BitXor(lhs, rhs)
    IN  Ones(U64Bytes) = BitNot(Sar(BitOr(t, wrapping_neg(t)), 63))

-----------------------------------------------------------------------------
(* Operands.                                                               *)

\* How many values random_elements draws besides the boundary values.
NumRandom == 6

\* 2^63 - 1 and (p + 1) / 2, the inverse of 2.
HalfMax == <<255, 255, 255, 255, 255, 255, 255, 127>>
HalfP == <<1, 0, 0, 128, 255, 255, 255, 127>>

\* The values of [0, p) at the boundaries of the algorithms: 0, 1, 2,
\* 2^32 - 1, 2^32, 2^63 - 1, (p + 1) / 2, p - 2 and p - 1.
Boundary ==
    { Zero(U64Bytes), Small(1, U64Bytes), Small(2, U64Bytes),
      LOWER_MASK, wrapping_add(LOWER_MASK, Small(1, U64Bytes)),
      HalfMax, HalfP,
      wrapping_sub(P64, Small(2, U64Bytes)),
      wrapping_sub(P64, Small(1, U64Bytes)) }

\* The step of the sequence that stands for the generator's draws,
\* 0x9e37_79b9_7f4a_7c15.
Stride == <<21, 124, 74, 127, 185, 121, 55, 158>>

\* The k-th draw of gen_range(0..P64): a value of [0, p).
Draw(k) ==
    Truncate(Rem(WideMul(Small(k, U64Bytes), Stride), P128), U64Bytes)

\* The values random_elements can return that the model covers.
random_elements == Boundary \cup { Draw(k) : k \in 1..NumRandom }

\* The u64 values montgomery_equals is applied to: field elements and
\* values of [p, 2^64).
Words ==
    random_elements
        \cup { wrapping_add(P64, Small(k, U64Bytes)) : k \in 0..2 }
        \cup { Ones(U64Bytes) }

\* What the idle state holds for the locals.
NoLocals == [overflow |-> FALSE]

Init ==
    /\ op = "idle"
    /\ x = Zero(U64Bytes)
    /\ y = Zero(U64Bytes)
    /\ out = Zero(U64Bytes)
    /\ loc = NoLocals
    /\ panic = FALSE

\* The test or benchmark loop takes the next window (x, y) of the operands
\* that random_elements returned.
RandomElements ==
    /\ op = "idle"
    /\ op' = "operands"
    /\ x' \in random_elements
    /\ y' \in random_elements
    /\ UNCHANGED <<out, loc, panic>>

\* A call of function f on the operands x and y, which gave the locals r.
Call(f, r) ==
    /\ op = "operands"
    /\ op' = f
    /\ out' = r.ret
    /\ loc' = r
    /\ panic' = r.overflow
    /\ UNCHANGED <<x, y>>

Add == Call("add", add(x, y))

AddFast == Call("add_fast", add_fast(x, y))

AddWinterfell == Call("add_winterfell", add_winterfell(x, y))

Mul == Call("mul", mul(x, y))

MulReduce159 == Call("mul_reduce159", mul_reduce159(x, y))

MulReduceMontgomery == Call("mul_reduce_montgomery", mul_reduce_montgomery(x, y))

\* montgomery_equals is applied to any two u64 values.
MontgomeryEquals ==
    \E lhs, rhs \in Words :
        /\ op = "idle"
        /\ op' = "montgomery_equals"
        /\ x' = lhs
        /\ y' = rhs
        /\ out' = montgomery_equals(lhs, rhs)
        /\ loc' = NoLocals
        /\ panic' = FALSE

\* One window (x, y) of tests::add_equivalence: a failed assert_eq! panics.
AddEquivalence ==
    LET sum == add(x, y).ret
        fast == add_fast(x, y).ret
        winterfell == add_winterfell(x, y).ret
    IN  /\ op = "operands"
        /\ op' = "add_equivalence"
        /\ out' = sum
        /\ loc' = [sum |-> sum, fast |-> fast, winterfell |-> winterfell]
        /\ panic' = (sum # fast \/ sum # winterfell)
        /\ UNCHANGED <<x, y>>

\* One window (x, y) of tests::mul_equivalence: a failed assert_eq! or
\* assert! panics.
MulEquivalence ==
    LET expected_product == mul(x, y).ret
        reduced == mul_reduce159(x, y).ret
        expected_montgomery_product ==
            reduce_montgomery(Widen(expected_product, U128Bytes)).ret
        actual_montgomery_product == mul_reduce_montgomery(x, y).ret
    IN  /\ op = "operands"
        /\ op' = "mul_equivalence"
        /\ out' = expected_product
        /\ loc' = [expected_product |-> expected_product,
                   reduced |-> reduced,
                   expected_montgomery_product |-> expected_montgomery_product,
                   actual_montgomery_product |-> actual_montgomery_product]
        /\ panic' = (\/ expected_product # reduced
                     \/ ~montgomery_equals(expected_montgomery_product,
                                           actual_montgomery_product))
        /\ UNCHANGED <<x, y>>

\* The call returns; nothing is kept between calls.
Return ==
    /\ op # "idle"
    /\ op' = "idle"
    /\ x' = Zero(U64Bytes)
    /\ y' = Zero(U64Bytes)
    /\ out' = Zero(U64Bytes)
    /\ loc' = NoLocals
    /\ panic' = FALSE

Next ==
    \/ RandomElements
    \/ Add
    \/ AddFast
    \/ AddWinterfell
    \/ Mul
    \/ MulReduce159
    \/ MulReduceMontgomery
    \/ MontgomeryEquals
    \/ AddEquivalence
    \/ MulEquivalence
    \/ Return

Spec == Init /\ [][Next]_vars

-----------------------------------------------------------------------------
(* Properties.                                                             *)

\* v is canonical: v < p.
InField(v) == Less(v, P64)

\* v % p for a u64 v.
Residue(v) == Truncate(Rem(Widen(v, U128Bytes), P128), U64Bytes)

\* (v * 2^64) % p for a u64 v.
ResidueTimesR(v) ==
    Truncate(Rem(Shl(Widen(v, U128Bytes), 64), P128), U64Bytes)

\* x + y < p, in 128 bits.
SumBelowP ==
    Less(wrapping_add(Widen(x, U128Bytes), Widen(y, U128Bytes)), P128)

One == Small(1, U64Bytes)

PMinusOne == wrapping_sub(P64, One)

\* C1: for x, y in [0, p), mul_reduce159(x, y) is the same 64-bit value as
\* mul(x, y), and so a value of [0, p).
C1_MulReduce159IsMul ==
    op = "mul_reduce159" => out = mul(x, y).ret /\ InField(out)

\* C2: for x, y in [0, p), add_fast(x, y) is the same 64-bit value as
\* add(x, y), also when x + y = p, and so a value of [0, p).
C2_AddFastIsAdd ==
    op = "add_fast" => out = add(x, y).ret /\ InField(out)

\* C3: for x, y in [0, p), add_winterfell(x, y) is the same 64-bit value as
\* add(x, y), and so a value of [0, p).
C3_AddWinterfellIsAdd ==
    op = "add_winterfell" => out = add(x, y).ret /\ InField(out)

\* C3's case: add_winterfell(p - 1, 1), where x + y = p, returned 0.
C3_Witness ==
    /\ op = "add_winterfell"
    /\ x = PMinusOne
    /\ y = One
    /\ out = Zero(U64Bytes)

\* C4: for x, y in [0, p), montgomery_equals judges the Montgomery reduction
\* of mul(x, y) and mul_reduce_montgomery(x, y) equal.
C4_MontgomeryConsistent ==
    op = "mul_reduce_montgomery" =>
        montgomery_equals(
            reduce_montgomery(Widen(mul(x, y).ret, U128Bytes)).ret, out)

\* C4's case: mul_reduce_montgomery(p - 1, p - 1), whose product is far
\* above p, so that mul reduces it before the Montgomery reduction.
C4_Witness ==
    /\ op = "mul_reduce_montgomery"
    /\ x = PMinusOne
    /\ y = PMinusOne
    /\ mul(x, y).ret = One

\* C5: for all u64 lhs and rhs, montgomery_equals(lhs, rhs) is true exactly
\* when lhs and rhs are the same 64 bits.
C5_EqualsIsBitEquality ==
    op = "montgomery_equals" => (out <=> x = y)

\* C5's case: montgomery_equals(v, v + p) returned false.
C5_Witness ==
    /\ op = "montgomery_equals"
    /\ InField(x)
    /\ y = wrapping_add(x, P64)
    /\ out = FALSE

\* C6 as stated: for x, y in [0, p), mul_reduce_montgomery(x, y) is
\* congruent to x * y modulo p.
C6_MontgomeryCongruentToProduct ==
    op = "mul_reduce_montgomery" => Residue(out) = mul(x, y).ret

\* C6 as amended: for x, y in [0, p), mul_reduce_montgomery(x, y) times 2^64
\* is congruent to x * y modulo p.
C6_MontgomeryTimesRCongruentToProduct ==
    op = "mul_reduce_montgomery" => ResidueTimesR(out) = mul(x, y).ret

\* C6's case: mul_reduce_montgomery(1, 1) returned a value that is not
\* congruent to 1.
C6_Witness ==
    /\ op = "mul_reduce_montgomery"
    /\ x = One
    /\ y = One
    /\ Residue(out) # One

\* C7: for x, y in [0, p), add_fast(x, y) is congruent to add(x, y) and
\* mul_reduce159(x, y) is congruent to mul(x, y) modulo p.
C7_FastVariantsCongruent ==
    /\ op = "add_fast" => Residue(out) = add(x, y).ret
    /\ op = "mul_reduce159" => Residue(out) = mul(x, y).ret

\* C7's case: mul_reduce159 returned a value that is not the one mul
\* returns.
C7_Witness ==
    /\ op = "mul_reduce159"
    /\ out # mul(x, y).ret

\* C8 as stated: in add_winterfell, a borrow of x - (p - y) happens exactly
\* when x + y < p; after a borrow the raw difference is returned as it is,
\* and 2^32 - 1 is subtracted exactly when there was no borrow.
C8_AdjustedWithoutBorrow ==
    op = "add_winterfell" =>
        /\ loc.c1 <=> SumBelowP
        /\ loc.c1 => loc.adj = Zero(U32Bytes) /\ out = loc.x1
        /\ ~loc.c1 => loc.adj = Ones(U32Bytes)

\* C8 as amended: in add_winterfell, a borrow of x - (p - y) happens exactly
\* when x + y < p; 2^32 - 1 is subtracted from the raw difference exactly
\* when there was a borrow, and without a borrow the raw difference is
\* returned as it is.
C8_AdjustedAfterBorrow ==
    op = "add_winterfell" =>
        /\ loc.c1 <=> SumBelowP
        /\ loc.c1 => /\ loc.adj = Ones(U32Bytes)
                     /\ out = wrapping_sub(loc.x1, LOWER_MASK)
        /\ ~loc.c1 => loc.adj = Zero(U32Bytes) /\ out = loc.x1

\* C8's case: add_winterfell borrowed and returned something else than the
\* raw difference.
C8_Witness ==
    /\ op = "add_winterfell"
    /\ loc.c1
    /\ out # loc.x1

\* The six arithmetic functions.
Operations ==
    { "add", "add_fast", "add_winterfell", "mul", "mul_reduce159",
      "mul_reduce_montgomery" }

\* C9: for x, y in [0, p), none of the six functions panics: no arithmetic
\* operator that is neither wrapping nor flag-reporting leaves its width;
\* and in reduce159 the shift c << 32 loses no bit and the two wrapping
\* corrections do not wrap.
C9_NoPanic ==
    /\ op \in Operations => ~panic /\ ~loc.overflow
    /\ op = "mul_reduce159" =>
           ~loc.shift_lost /\ ~loc.sub_wrapped /\ ~loc.add_wrapped

\* C9's case: reduce159 applied both corrections, after an underflow of
\* ab - d and after an overflow of tmp1 + tmp2.
C9_Witness ==
    /\ op = "mul_reduce159"
    /\ loc.is_under
    /\ loc.is_over
    /\ ~panic

\* C10: for x, y in [0, p), mul_reduce_montgomery(x, y) is the z of [0, p)
\* with z * 2^64 congruent to x * y modulo p.
C10_MontgomeryCanonical ==
    op = "mul_reduce_montgomery" =>
        /\ InField(out)
        /\ Rem(Shl(Widen(out, U128Bytes), 64), P128) =
               Rem(WideMul(x, y), P128)

\* C10's case: reduce_montgomery carried in xl + (xl << 32), borrowed in
\* xh - b and subtracted the mask.
C10_Witness ==
    /\ op = "mul_reduce_montgomery"
    /\ loc.e
    /\ loc.c
    /\ out # Zero(U64Bytes)
====
